---- MODULE Spec2Model ----
(***************************************************************************)
(* Intercom: an in-process event bus and single-responder RPC dispatcher.  *)
(* The model follows service/intercom.ts: two registries per instance, the *)
(* registry utilities, the event channel and the method channel, the       *)
(* host's task queue (setImmediate) and the promises in flight.            *)
(***************************************************************************)
EXTENDS Integers, Sequences, FiniteSets, TLC

VARIABLES
    config,          \* config[i]: the merged configuration of instance i
    eventHandlers,   \* eventHandlers[i]: name -> sequence of {id, handler}
    methodHandlers,  \* methodHandlers[i]: name -> sequence of {id, handler}
    taskQueue,       \* callbacks handed to setImmediate, oldest first
    pending,         \* promises of method handlers not yet settled
    last,            \* what the last step did and gave back to its caller
    calls,           \* how many operations of the dispatchers were called
    assigned         \* the ids entries held at any time before the last call

vars == <<config, eventHandlers, methodHandlers, taskQueue, pending, last, calls,
          assigned>>

----------------------------------------------------------------------------
(* Bounds of the model. *)

MaxHandlers == 2     \* longest list of event handlers under one name
MaxQueue == 2        \* most callbacks waiting in the task queue
MaxPending == 1      \* most method-handler promises in flight
MaxCalls == 3        \* most calls of the dispatchers' operations in one run

----------------------------------------------------------------------------
(* Inputs. *)

\* The instances of index.ts: the shared default one and a created one.
Insts == {"default", "created"}

\* Instances the operations of Spec are called on.
Active == {"created"}

Names == {"a", "b"}
Payloads == {"p1", "p2"}

\* What shortid's generateId() may give back.
Ids == 1 .. (MaxHandlers + 1)

\* Event handlers: h1 returns, h2 throws when it is run.
EventCallables == {"h1", "h2"}
EventCallableThrows(h) == h = "h2"

\* Method handlers and their declared parameter count: m1 returns a promise,
\* m2 takes a completion callback. Whether a call of one succeeds is known
\* when it completes.
MethodCallables == {"m1", "m2"}
DeclaredLength(h) == IF h = "m1" THEN 1 ELSE 2

Undefined == <<"undefined">>
ResultOf(h, p) == <<"result", h, p>>
ErrorOf(h, p) == <<"error", h, p>>
CallbackError == <<"error", "callback">>

\* A per-call config argument: absent, or an object holding one flag.
NoCallConfig == [supplied |-> FALSE, value |-> FALSE]
CallConfigs == {NoCallConfig, [supplied |-> TRUE, value |-> TRUE],
                [supplied |-> TRUE, value |-> FALSE]}

----------------------------------------------------------------------------
(* Configuration. *)

defaultIntercomConfig ==
    [preventDuplicatedEventListeners |-> FALSE,
     throwErrorIfNoEventHandlerFound |-> FALSE,
     throwErrorIfNoMethodHandlerFound |-> TRUE]

IntercomConfig ==
    [preventDuplicatedEventListeners : BOOLEAN,
     throwErrorIfNoEventHandlerFound : BOOLEAN,
     throwErrorIfNoMethodHandlerFound : BOOLEAN]

----------------------------------------------------------------------------
(* Registry utilities. A registry is a function whose domain is the set   *)
(* of keys the object holds.                                              *)

EmptyRegistry == [n \in {} |-> <<>>]

prepareHandlersRegistry(registry, handlerName) ==
    IF handlerName \in DOMAIN registry
    THEN registry
    ELSE [n \in DOMAIN registry \cup {handlerName} |->
            IF n = handlerName THEN <<>> ELSE registry[n]]

\* TRUE when ensureHandlersExists throws E_NO_HANDLER.
ensureHandlersExists(registry, handlerName, throwErrorIfNotExists) ==
    LET handlerExists == Len(registry[handlerName]) > 0
    IN  ~handlerExists /\ throwErrorIfNotExists

\* preventRegisteringMoreThanOneHandler, were it to let a second handler in.
preventRegisteringMoreThanTwoHandlers(registry, handlerName, throwErrorIfExists) ==
    LET handlerExists == Len(registry[handlerName]) > 1
    IN  handlerExists /\ throwErrorIfExists

\* TRUE when preventRegisteringMoreThanOneHandler throws E_ALREADY_EXISTS.
preventRegisteringMoreThanOneHandler(registry, handlerName, throwErrorIfExists) ==
    LET handlerExists == Len(registry[handlerName]) > 0
    IN  handlerExists /\ throwErrorIfExists

removeAllHandlers(registry, handlerName) ==
    [n \in DOMAIN registry \ {handlerName} |-> registry[n]]

RECURSIVE FilterOutId(_, _)
FilterOutId(list, handlerId) ==
    IF list = <<>> THEN <<>>
    ELSE IF Head(list).id # handlerId
         THEN <<Head(list)>> \o FilterOutId(Tail(list), handlerId)
         ELSE FilterOutId(Tail(list), handlerId)

\* removeHandlerById, were it to drop the whole list of the name.
removeHandlerByIdAndTheRest(registry, handlerName, handlerId) ==
    [registry EXCEPT ![handlerName] = <<>>]

removeHandlerById(registry, handlerName, handlerId) ==
    [registry EXCEPT ![handlerName] = FilterOutId(registry[handlerName], handlerId)]

\* The ids of the entries a registry holds under a name.
IdsOf(registry, handlerName) ==
    IF handlerName \in DOMAIN registry
    THEN {registry[handlerName][k].id : k \in 1 .. Len(registry[handlerName])}
    ELSE {}

\* generateUniqueIdentifier, were it to return the first id generated.
generateAnyIdentifier(registry, handlerName) == Ids

\* The ids the do-while loop of generateUniqueIdentifier can end with.
generateUniqueIdentifier(registry, handlerName) ==
    {generatedId \in Ids :
        \A k \in 1 .. Len(registry[handlerName]) :
            registry[handlerName][k].id # generatedId}

\* Array.prototype.push: the new array and the value push returns.
ArrayPush(list, entry) ==
    [array |-> Append(list, entry), returned |-> Len(list) + 1]

\* list[index] of a JavaScript array (indices from 0): FALSE when undefined.
ArrayHas(list, index) == index >= 0 /\ index < Len(list)
ArrayAt(list, index) == list[index + 1]

----------------------------------------------------------------------------
(* What a step reports. *)

NoId == 0

\* op, self, name, handler, payload, cfg, id: the step and its arguments;
\* error: what it threw ("none": it returned); ret: the id it returned;
\* ran: the handlers it ran before returning.
Report(op, self, name, handler, payload, cfg, id, error, ret, ran) ==
    [op |-> op, self |-> self, name |-> name, handler |-> handler,
     payload |-> payload, cfg |-> cfg, id |-> id, error |-> error,
     ret |-> ret, ran |-> ran,
     promise |-> "none", value |-> Undefined, calls |-> <<>>]

Init ==
    /\ config \in [Insts -> IntercomConfig]
    /\ config["default"] = defaultIntercomConfig
    /\ eventHandlers = [i \in Insts |-> EmptyRegistry]
    /\ methodHandlers = [i \in Insts |-> EmptyRegistry]
    /\ taskQueue = <<>>
    /\ pending = <<>>
    /\ last = Report("new", "created", "", "", "", NoCallConfig, NoId, "none",
                     NoId, <<>>)
    /\ calls = 0
    /\ assigned = {}

----------------------------------------------------------------------------
(* Event channel. *)

\* The strictness emit would hand over if it combined the two flags with ||.
EmitStrictByOr(self, cfg) ==
    (cfg.supplied /\ cfg.value) \/ config[self].throwErrorIfNoEventHandlerFound

\* The strictness emit hands to ensureHandlersExists.
EmitStrict(self, cfg) ==
    IF cfg.supplied THEN cfg.value ELSE config[self].throwErrorIfNoEventHandlerFound

\* The callbacks emit hands to setImmediate, in the order of the map.
ScheduledBy(self, name, list, payload) ==
    [k \in 1 .. Len(list) |->
        [self |-> self, name |-> name, id |-> list[k].id,
         handler |-> list[k].handler, payload |-> payload]]

\* The handlers emit has run when it returns, which would be all of the list
\* had it called them itself.
CalledInline(list, payload) == [k \in 1 .. Len(list) |-> list[k].handler]

\* The handlers emit has run when it returns: none, setImmediate defers them.
RanInline(list, payload) == <<>>

\* What emit throws past the existence check: what a handler it ran threw.
EmitError(ran) ==
    IF \E k \in 1 .. Len(ran) : EventCallableThrows(ran[k]) THEN "HandlerError" ELSE "none"

emit(self, eventName, payload, cfg) ==
    LET prepared == prepareHandlersRegistry(eventHandlers[self], eventName)
        list == prepared[eventName]
    IN  /\ Len(taskQueue) + Len(list) <= MaxQueue
        /\ eventHandlers' = [eventHandlers EXCEPT ![self] = prepared]
        /\ IF ensureHandlersExists(prepared, eventName, EmitStrict(self, cfg))
           THEN /\ taskQueue' = taskQueue
                /\ last' = Report("emit", self, eventName, "", payload, cfg, NoId,
                                  "E_NO_HANDLER", NoId, <<>>)
           ELSE /\ taskQueue' = taskQueue \o ScheduledBy(self, eventName, list, payload)
                /\ last' = Report("emit", self, eventName, "", payload, cfg, NoId,
                                  EmitError(RanInline(list, payload)), NoId,
                                  RanInline(list, payload))
        /\ UNCHANGED <<config, methodHandlers, pending>>

\* RunTask, were the callback to look its handler up in the registry when it
\* runs and skip one that is no longer there.
RunTaskIfStillRegistered ==
    /\ taskQueue # <<>>
    /\ LET task == Head(taskQueue)
           there == task.id \in IdsOf(eventHandlers[task.self], task.name)
       IN  last' = Report("task", task.self, task.name, task.handler, task.payload,
                          NoCallConfig, task.id,
                          IF there /\ EventCallableThrows(task.handler)
                          THEN "HandlerError" ELSE "none",
                          NoId, IF there THEN <<task.handler>> ELSE <<>>)
    /\ taskQueue' = Tail(taskQueue)
    /\ UNCHANGED <<config, eventHandlers, methodHandlers, pending>>

\* The task queue runs its oldest callback: (payload) => handler.handler(payload).
RunTask ==
    /\ taskQueue # <<>>
    /\ LET task == Head(taskQueue)
       IN  last' = Report("task", task.self, task.name, task.handler, task.payload,
                          NoCallConfig, task.id,
                          IF EventCallableThrows(task.handler) THEN "HandlerError" ELSE "none",
                          NoId, <<task.handler>>)
    /\ taskQueue' = Tail(taskQueue)
    /\ UNCHANGED <<config, eventHandlers, methodHandlers, pending>>

\* The strictness onEvent hands to preventRegisteringMoreThanOneHandler.
OnEventStrict(self, cfg) ==
    (cfg.supplied /\ cfg.value) \/ config[self].preventDuplicatedEventListeners

onEvent(self, eventName, handler, cfg) ==
    LET prepared == prepareHandlersRegistry(eventHandlers[self], eventName)
    IN  IF preventRegisteringMoreThanOneHandler(prepared, eventName, OnEventStrict(self, cfg))
        THEN /\ eventHandlers' = [eventHandlers EXCEPT ![self] = prepared]
             /\ last' = Report("onEvent", self, eventName, handler, "", cfg, NoId,
                               "E_ALREADY_EXISTS", NoId, <<>>)
             /\ UNCHANGED <<config, methodHandlers, taskQueue, pending>>
        ELSE /\ Len(prepared[eventName]) < MaxHandlers
             /\ \E generatedId \in generateUniqueIdentifier(prepared, eventName) :
                  LET pushed == ArrayPush(prepared[eventName],
                                          [id |-> generatedId, handler |-> handler])
                      insertedHandlerIndex == pushed.returned
                  IN  /\ eventHandlers' =
                            [eventHandlers EXCEPT ![self] =
                                [prepared EXCEPT ![eventName] = pushed.array]]
                      /\ last' =
                            IF ArrayHas(pushed.array, insertedHandlerIndex)
                            THEN Report("onEvent", self, eventName, handler, "", cfg,
                                        generatedId, "none",
                                        ArrayAt(pushed.array, insertedHandlerIndex).id,
                                        <<>>)
                            ELSE Report("onEvent", self, eventName, handler, "", cfg,
                                        generatedId, "TypeError", NoId, <<>>)
             /\ UNCHANGED <<config, methodHandlers, taskQueue, pending>>

\* removeAllEventHandlers, were the registry one object shared by the instances.
removeAllEventHandlersOfAll(self, eventName) ==
    /\ eventHandlers' =
          [i \in Insts |->
              removeAllHandlers(prepareHandlersRegistry(eventHandlers[i], eventName), eventName)]
    /\ last' = Report("removeAllEventHandlers", self, eventName, "", "", NoCallConfig,
                      NoId, "none", NoId, <<>>)
    /\ UNCHANGED <<config, methodHandlers, taskQueue, pending>>

removeAllEventHandlers(self, eventName) ==
    LET prepared == prepareHandlersRegistry(eventHandlers[self], eventName)
    IN  /\ eventHandlers' = [eventHandlers EXCEPT ![self] = removeAllHandlers(prepared, eventName)]
        /\ last' = Report("removeAllEventHandlers", self, eventName, "", "", NoCallConfig,
                          NoId, "none", NoId, <<>>)
        /\ UNCHANGED <<config, methodHandlers, taskQueue, pending>>

\* The handler of the entry of the list that has the id, "" when none has.
RemovedHandler(list, handlerId) ==
    IF \E k \in 1 .. Len(list) : list[k].id = handlerId
    THEN list[CHOOSE k \in 1 .. Len(list) : list[k].id = handlerId].handler
    ELSE ""

removeEventHandler(self, eventName, handlerId) ==
    LET prepared == prepareHandlersRegistry(eventHandlers[self], eventName)
    IN  /\ eventHandlers' =
              [eventHandlers EXCEPT ![self] = removeHandlerById(prepared, eventName, handlerId)]
        /\ last' = Report("removeEventHandler", self, eventName,
                          RemovedHandler(prepared[eventName], handlerId), "",
                          NoCallConfig, handlerId, "none", NoId, <<>>)
        /\ UNCHANGED <<config, methodHandlers, taskQueue, pending>>

----------------------------------------------------------------------------
(* Method channel. *)

\* The strictness request hands to ensureHandlersExists.
RequestStrict(self, cfg) ==
    (cfg.supplied /\ cfg.value) \/ config[self].throwErrorIfNoMethodHandlerFound

\* The wrapper, were its completion callback to resolve with the result
\* whatever the error.
WrappedHandlerIgnoringErr(h, payload, fails) ==
    IF DeclaredLength(h) = 1
    THEN IF fails
         THEN [state |-> "rejected", value |-> ErrorOf(h, payload)]
         ELSE [state |-> "fulfilled", value |-> ResultOf(h, payload)]
    ELSE LET result == IF fails THEN Undefined ELSE ResultOf(h, payload)
         IN  [state |-> "fulfilled", value |-> result]

\* How the promise of the wrapper stored by onRequest settles for handler h,
\* which fails or succeeds.
WrappedHandler(h, payload, fails) ==
    IF DeclaredLength(h) = 1
    THEN IF fails
         THEN [state |-> "rejected", value |-> ErrorOf(h, payload)]
         ELSE [state |-> "fulfilled", value |-> ResultOf(h, payload)]
    ELSE LET err == IF fails THEN ErrorOf(h, payload) ELSE Undefined
             result == IF fails THEN Undefined ELSE ResultOf(h, payload)
         IN  IF err # Undefined
             THEN [state |-> "rejected", value |-> err]
             ELSE [state |-> "fulfilled", value |-> err]

request(self, methodName, payload, cfg, mode) ==
    LET prepared == prepareHandlersRegistry(methodHandlers[self], methodName)
        list == prepared[methodName]
        report(error, ran, promise) ==
            [Report("request", self, methodName, "", payload, cfg, NoId, error, NoId, ran)
                EXCEPT !.promise = promise]
    IN  /\ methodHandlers' = [methodHandlers EXCEPT ![self] = prepared]
        /\ IF ensureHandlersExists(prepared, methodName, RequestStrict(self, cfg))
           THEN /\ last' = report("E_NO_HANDLER", <<>>, "none")
                /\ pending' = pending
           ELSE IF ~ArrayHas(list, 0)
           THEN /\ last' = report("TypeError", <<>>, "none")
                /\ pending' = pending
           ELSE /\ Len(pending) < MaxPending
                /\ pending' = Append(pending,
                        [self |-> self, name |-> methodName,
                         handler |-> ArrayAt(list, 0).handler, payload |-> payload,
                         mode |-> mode])
                /\ last' = report("none", <<ArrayAt(list, 0).handler>>,
                                  IF mode = "callback" THEN "none" ELSE "pending")
        /\ UNCHANGED <<config, eventHandlers, taskQueue>>

\* The calls of the completion callback made by
\* .then(result => callback(undefined, result)).catch(err => callback(err)).
CallbackCalls(settled, cbThrows) ==
    IF settled.state = "fulfilled"
    THEN IF cbThrows
         THEN <<<<Undefined, settled.value>>, <<CallbackError, Undefined>>>>
         ELSE <<<<Undefined, settled.value>>>>
    ELSE <<<<settled.value, Undefined>>>>

\* The promise of the k-th request in flight settles: its handler failed or
\* succeeded, and the completion callback throws or returns when it is called.
Settle(k, fails, cbThrows) ==
    /\ k \in 1 .. Len(pending)
    /\ pending[k].mode = "deferred" => ~cbThrows
    /\ LET item == pending[k]
           settled == WrappedHandler(item.handler, item.payload, fails)
       IN  last' =
             [Report("settle", item.self, item.name, item.handler, item.payload,
                     NoCallConfig, NoId, IF fails THEN "HandlerError" ELSE "none",
                     NoId, <<>>)
                EXCEPT !.promise = IF item.mode = "callback" THEN "none" ELSE settled.state,
                       !.value = IF item.mode = "callback" THEN Undefined ELSE settled.value,
                       !.calls = IF item.mode = "callback"
                                 THEN CallbackCalls(settled, cbThrows) ELSE <<>>]
    /\ pending' = [j \in 1 .. Len(pending) - 1 |-> IF j < k THEN pending[j] ELSE pending[j + 1]]
    /\ UNCHANGED <<config, eventHandlers, methodHandlers, taskQueue>>

\* onRequest, were it to register the way onEvent does: the duplication check
\* under the configured flag, then a push.
onRequestByPush(self, methodName, handler) ==
    LET prepared == prepareHandlersRegistry(methodHandlers[self], methodName)
    IN  IF preventRegisteringMoreThanOneHandler(prepared, methodName,
                                                config[self].preventDuplicatedEventListeners)
        THEN /\ methodHandlers' = [methodHandlers EXCEPT ![self] = prepared]
             /\ last' = Report("onRequest", self, methodName, handler, "", NoCallConfig,
                               NoId, "E_ALREADY_EXISTS", NoId, <<>>)
             /\ UNCHANGED <<config, eventHandlers, taskQueue, pending>>
        ELSE /\ Len(prepared[methodName]) < MaxHandlers
             /\ \E handlerIdentifier \in generateUniqueIdentifier(prepared, methodName) :
                  /\ methodHandlers' =
                        [methodHandlers EXCEPT ![self] =
                            [prepared EXCEPT ![methodName] =
                                Append(prepared[methodName],
                                       [id |-> handlerIdentifier, handler |-> handler])]]
                  /\ last' = Report("onRequest", self, methodName, handler, "",
                                    NoCallConfig, handlerIdentifier, "none",
                                    handlerIdentifier, <<>>)
             /\ UNCHANGED <<config, eventHandlers, taskQueue, pending>>

onRequest(self, methodName, handler) ==
    LET prepared == prepareHandlersRegistry(methodHandlers[self], methodName)
    IN  IF preventRegisteringMoreThanOneHandler(prepared, methodName, TRUE)
        THEN /\ methodHandlers' = [methodHandlers EXCEPT ![self] = prepared]
             /\ last' = Report("onRequest", self, methodName, handler, "", NoCallConfig,
                               NoId, "E_ALREADY_EXISTS", NoId, <<>>)
             /\ UNCHANGED <<config, eventHandlers, taskQueue, pending>>
        ELSE /\ \E handlerIdentifier \in generateUniqueIdentifier(prepared, methodName) :
                  /\ methodHandlers' =
                        [methodHandlers EXCEPT ![self] =
                            [prepared EXCEPT ![methodName] =
                                <<[id |-> handlerIdentifier, handler |-> handler]>>]]
                  /\ last' = Report("onRequest", self, methodName, handler, "",
                                    NoCallConfig, handlerIdentifier, "none",
                                    handlerIdentifier, <<>>)
             /\ UNCHANGED <<config, eventHandlers, taskQueue, pending>>

removeMethodHandler(self, methodName) ==
    /\ methodHandlers' =
          [methodHandlers EXCEPT ![self] = removeAllHandlers(methodHandlers[self], methodName)]
    /\ last' = Report("removeMethodHandler", self, methodName, "", "", NoCallConfig,
                      NoId, "none", NoId, <<>>)
    /\ UNCHANGED <<config, eventHandlers, taskQueue, pending>>

----------------------------------------------------------------------------
(* The dispatcher and its host. *)

\* The ids the entries of the registries hold, each with its instance, its
\* registry and its name.
HeldIds ==
    UNION {{<<i, "event", n, id>> : id \in IdsOf(eventHandlers[i], n)} \cup
           {<<i, "method", n, id>> : id \in IdsOf(methodHandlers[i], n)} :
           i \in Insts, n \in Names}

\* One more call of an operation by the program that uses the dispatchers.
Call ==
    /\ calls < MaxCalls
    /\ calls' = calls + 1
    /\ assigned' = assigned \cup HeldIds

\* A step of the host, which is no call of an operation.
Host == UNCHANGED <<calls, assigned>>

\* The event channel and the task queue of its host.
NextEvent ==
    \/ \E self \in Active, n \in Names, h \in EventCallables, c \in CallConfigs :
          Call /\ onEvent(self, n, h, c)
    \/ \E self \in Active, n \in Names, p \in Payloads, c \in CallConfigs :
          Call /\ emit(self, n, p, c)
    \/ \E self \in Active, n \in Names : Call /\ removeAllEventHandlers(self, n)
    \/ \E self \in Active, n \in Names, id \in Ids : Call /\ removeEventHandler(self, n, id)
    \/ RunTask /\ Host

\* The method channel and the promises of its handlers.
NextMethod ==
    \/ \E self \in Active, n \in Names, h \in MethodCallables : Call /\ onRequest(self, n, h)
    \/ \E self \in Active, n \in Names, p \in Payloads, c \in CallConfigs,
          mode \in {"deferred", "callback"} :
          Call /\ request(self, n, p, c, mode)
    \/ \E self \in Active, n \in Names : Call /\ removeMethodHandler(self, n)
    \/ \E k \in 1 .. MaxPending, fails \in BOOLEAN, cbThrows \in BOOLEAN :
          Settle(k, fails, cbThrows) /\ Host

Next == NextEvent \/ NextMethod

Spec == Init /\ [][Next]_vars

\* A program that uses the event channel only.
SpecEvent == Init /\ [][NextEvent]_vars

\* A program that uses the method channel only.
SpecMethod == Init /\ [][NextMethod]_vars

\* A program that uses both channels, with one handler and one payload per
\* channel and no per-call config.
NextBoth ==
    \/ \E self \in Active, n \in Names : Call /\ onEvent(self, n, "h1", NoCallConfig)
    \/ \E self \in Active, n \in Names : Call /\ emit(self, n, "p1", NoCallConfig)
    \/ \E self \in Active, n \in Names : Call /\ removeAllEventHandlers(self, n)
    \/ \E self \in Active, n \in Names, id \in Ids : Call /\ removeEventHandler(self, n, id)
    \/ \E self \in Active, n \in Names : Call /\ onRequest(self, n, "m1")
    \/ \E self \in Active, n \in Names : Call /\ request(self, n, "p1", NoCallConfig, "deferred")
    \/ \E self \in Active, n \in Names : Call /\ removeMethodHandler(self, n)
    \/ RunTask /\ Host
    \/ \E k \in 1 .. MaxPending, fails \in BOOLEAN : Settle(k, fails, FALSE) /\ Host

SpecBoth == Init /\ [][NextBoth]_vars

\* The handlers the program gives to each of its two dispatchers: the default
\* instance of index.ts gets "h1" and "m1", the created one "h2" and "m2".
OwnEventCallable(self) == IF self = "default" THEN "h1" ELSE "h2"
OwnMethodCallable(self) == IF self = "default" THEN "m1" ELSE "m2"

\* The one name the program uses on both dispatchers.
SharedName == "a"

\* A program that uses the default instance and a created one side by side,
\* under the same name.
NextTwo ==
    \/ \E self \in Insts :
          Call /\ onEvent(self, SharedName, OwnEventCallable(self), NoCallConfig)
    \/ \E self \in Insts : Call /\ emit(self, SharedName, "p1", NoCallConfig)
    \/ \E self \in Insts : Call /\ removeAllEventHandlers(self, SharedName)
    \/ \E self \in Insts, id \in Ids : Call /\ removeEventHandler(self, SharedName, id)
    \/ \E self \in Insts : Call /\ onRequest(self, SharedName, OwnMethodCallable(self))
    \/ \E self \in Insts :
          Call /\ request(self, SharedName, "p1", NoCallConfig, "deferred")
    \/ \E self \in Insts : Call /\ removeMethodHandler(self, SharedName)
    \/ RunTask /\ Host
    \/ \E k \in 1 .. MaxPending, fails \in BOOLEAN : Settle(k, fails, FALSE) /\ Host

SpecTwo == Init /\ [][NextTwo]_vars

----------------------------------------------------------------------------
(* Properties. *)

\* The flag a call is documented to run under: the one of its config argument
\* when the caller supplies one, the dispatcher's own otherwise.
PerCallElseOwn(cfg, own) == IF cfg.supplied THEN cfg.value ELSE own

\* The step is a call of the operation op.
IsCall(op) == calls' = calls + 1 /\ last'.op = op

\* The list a registry holds under a name, a missing key being no handlers.
ListOf(registry, name) == IF name \in DOMAIN registry THEN registry[name] ELSE <<>>

\* C1: every onEvent call that passes the duplication check appends exactly
\* one entry {id, handler} to the end of the list of its name and returns,
\* without raising, the id of that last entry.
C1_OnEventReturnsAppendedId ==
    [][(IsCall("onEvent") /\ last'.error # "E_ALREADY_EXISTS") =>
         LET before == ListOf(eventHandlers[last'.self], last'.name)
             after == ListOf(eventHandlers'[last'.self], last'.name)
         IN  /\ Len(after) = Len(before) + 1
             /\ SubSeq(after, 1, Len(before)) = before
             /\ after[Len(after)].handler = last'.handler
             /\ last'.error = "none"
             /\ last'.ret = after[Len(after)].id]_vars

\* C2: an onRequest call for a name that already holds a handler does not
\* fail: it returns a new id and leaves its own handler as the only entry of
\* the name, which is the one every later request runs.
C2_SecondOnRequestReplaces ==
    [][/\ (IsCall("onRequest")
           /\ Len(ListOf(methodHandlers[last'.self], last'.name)) > 0) =>
             /\ last'.error = "none"
             /\ methodHandlers'[last'.self][last'.name] =
                    <<[id |-> last'.ret, handler |-> last'.handler]>>
       /\ (IsCall("request") /\ last'.ran # <<>>) =>
             last'.ran = <<methodHandlers[last'.self][last'.name][1].handler>>]_vars

\* C3: in every reachable state the methodHandlers list of every name of
\* every instance holds at most one entry.
C3_AtMostOneMethodHandler ==
    \A i \in Insts : \A n \in DOMAIN methodHandlers[i] : Len(methodHandlers[i][n]) <= 1

\* C3 witness: a second onRequest for a name was called and the name holds
\* one entry.
C3_Witness ==
    /\ last.op = "onRequest"
    /\ last.error = "E_ALREADY_EXISTS"
    /\ Len(methodHandlers[last.self][last.name]) = 1

\* C4: request on a name with no handler fails with E_NO_HANDLER exactly
\* when the flag of its config argument, or without one the dispatcher's
\* throwErrorIfNoMethodHandlerFound, is true.
C4_RequestStrictIsPerCall ==
    (last.op = "request" /\ methodHandlers[last.self][last.name] = <<>>) =>
        (last.error = "E_NO_HANDLER" <=>
            PerCallElseOwn(last.cfg, config[last.self].throwErrorIfNoMethodHandlerFound))

\* C5: on a dispatcher built with throwErrorIfNoMethodHandlerFound false, a
\* request with no overriding config on a name with no handler raises
\* nothing, runs no handler, leaves no promise and calls no callback.
C5_LenientRequestIsNoOp ==
    [][(/\ IsCall("request")
        /\ ~config[last'.self].throwErrorIfNoMethodHandlerFound
        /\ ~PerCallElseOwn(last'.cfg, FALSE)
        /\ ListOf(methodHandlers[last'.self], last'.name) = <<>>) =>
          /\ last'.error = "none"
          /\ last'.ran = <<>>
          /\ last'.calls = <<>>
          /\ pending' = pending]_vars

\* C6: emit on a name with no handler fails with E_NO_HANDLER exactly when
\* the flag of its config argument, or without one the dispatcher's
\* throwErrorIfNoEventHandlerFound, is true; when it does not fail it
\* schedules nothing, runs nothing and raises nothing.
C6_EmitStrictIsPerCall ==
    [][(IsCall("emit") /\ ListOf(eventHandlers[last'.self], last'.name) = <<>>) =>
          /\ last'.error = "E_NO_HANDLER" <=>
                PerCallElseOwn(last'.cfg, config[last'.self].throwErrorIfNoEventHandlerFound)
          /\ last'.error \in {"none", "E_NO_HANDLER"}
          /\ taskQueue' = taskQueue
          /\ last'.ran = <<>>]_vars

\* C6 witness: on a dispatcher built strict, an emit passing the flag false
\* on a name with no handler has returned.
C6_Witness ==
    /\ last.op = "emit"
    /\ config[last.self].throwErrorIfNoEventHandlerFound
    /\ last.cfg = [supplied |-> TRUE, value |-> FALSE]
    /\ eventHandlers[last.self][last.name] = <<>>
    /\ last.error = "none"

\* C7: the duplication flag onEvent applies is the one of its config
\* argument when one is supplied and the dispatcher's own only otherwise: it
\* fails with E_ALREADY_EXISTS only under that flag, and otherwise registers
\* its handler.
C7_OnEventStrictIsPerCall ==
    last.op = "onEvent" =>
        /\ last.error = "E_ALREADY_EXISTS" =>
              PerCallElseOwn(last.cfg, config[last.self].preventDuplicatedEventListeners)
        /\ last.error # "E_ALREADY_EXISTS" =>
              LET list == eventHandlers[last.self][last.name]
              IN  list # <<>> /\ list[Len(list)].handler = last.handler

\* C8: under duplication prevention an onEvent call for a name that holds a
\* handler fails with E_ALREADY_EXISTS and leaves the registry as it was.
C8_DuplicateRejectedListKept ==
    [][(/\ IsCall("onEvent")
        /\ PerCallElseOwn(last'.cfg, config[last'.self].preventDuplicatedEventListeners)
        /\ Len(ListOf(eventHandlers[last'.self], last'.name)) > 0) =>
          /\ last'.error = "E_ALREADY_EXISTS"
          /\ eventHandlers' = eventHandlers]_vars

\* C8 witness: an onEvent call was rejected on a name that holds a handler.
C8_Witness ==
    /\ last.op = "onEvent"
    /\ last.error = "E_ALREADY_EXISTS"
    /\ Len(eventHandlers[last.self][last.name]) >= 1

\* C9: with the default config every onEvent call succeeds, on a name that
\* holds handlers too, and every emit schedules each handler of the name
\* once with its payload, in registration order.
C9_DefaultFanOut ==
    [][/\ (/\ IsCall("onEvent")
           /\ config[last'.self] = defaultIntercomConfig
           /\ last'.cfg = NoCallConfig) =>
             last'.error = "none"
       /\ (/\ IsCall("emit")
           /\ config[last'.self] = defaultIntercomConfig
           /\ last'.cfg = NoCallConfig) =>
             LET list == ListOf(eventHandlers[last'.self], last'.name)
             IN  /\ last'.error = "none"
                 /\ Len(taskQueue') = Len(taskQueue) + Len(list)
                 /\ \A k \in 1 .. Len(list) :
                       LET task == taskQueue'[Len(taskQueue) + k]
                       IN  /\ task.id = list[k].id
                           /\ task.handler = list[k].handler
                           /\ task.payload = last'.payload]_vars

\* C10: emit runs no handler before it returns, and what its handlers do
\* never makes it fail: handlers run in steps of the task queue only, and an
\* emit on a name that holds handlers returns without an error.
C10_EmitNeverInline ==
    /\ last.op = "emit" =>
          /\ last.ran = <<>>
          /\ last.error \in {"none", "E_NO_HANDLER"}
          /\ last.error = "E_NO_HANDLER" => eventHandlers[last.self][last.name] = <<>>
    /\ last.ran # <<>> => last.op \in {"task", "request"}

\* C10 witness: an emit has returned with a throwing handler of its name
\* waiting in the task queue.
C10_Witness ==
    /\ last.op = "emit"
    /\ last.error = "none"
    /\ \E k \in 1 .. Len(taskQueue) :
          /\ taskQueue[k].name = last.name
          /\ taskQueue[k].payload = last.payload
          /\ EventCallableThrows(taskQueue[k].handler)

\* C11: removeEventHandler(name, id) raises nothing and removes from the list
\* of name the entry that has the id and nothing else: the other entries keep
\* their order, the other names and instances and the method registries are
\* unchanged, and when no entry has the id nothing is removed.
C11_RemoveExactlyOne ==
    [][IsCall("removeEventHandler") =>
         LET self == last'.self
             before == ListOf(eventHandlers[self], last'.name)
             after == ListOf(eventHandlers'[self], last'.name)
             others(e) == e.id # last'.id
         IN  /\ last'.error = "none"
             /\ after = SelectSeq(before, others)
             /\ Len(after) >= Len(before) - 1
             /\ (\A k \in 1 .. Len(before) : before[k].id # last'.id) => after = before
             /\ \A i \in Insts, n \in Names :
                   (i # self \/ n # last'.name) =>
                      ListOf(eventHandlers'[i], n) = ListOf(eventHandlers[i], n)
             /\ methodHandlers' = methodHandlers]_vars

\* C11 witness: a removeEventHandler call has removed one entry of a name and
\* another entry of the name is still there.
C11_Witness ==
    /\ last.op = "removeEventHandler"
    /\ last.handler # ""
    /\ Len(eventHandlers[last.self][last.name]) = 1
    /\ eventHandlers[last.self][last.name][1].id # last.id

\* C12: when the handler of a request, of either shape, succeeds with a
\* result, the promise a deferred request returned is fulfilled with that
\* result and the callback of a callback request is called with
\* (undefined, result).
C12_SuccessReachesCaller ==
    (last.op = "settle" /\ last.error = "none") =>
        /\ last.promise # "none" =>
              /\ last.promise = "fulfilled"
              /\ last.value = ResultOf(last.handler, last.payload)
        /\ last.calls # <<>> =>
              last.calls[1] = <<Undefined, ResultOf(last.handler, last.payload)>>

\* C13: when the handler of a request, of either shape, fails with an error,
\* the promise a deferred request returned is rejected with that error and
\* the callback of a callback request is called, once, with (error, undefined).
C13_FailureReachesCaller ==
    (last.op = "settle" /\ last.error = "HandlerError") =>
        /\ last.promise # "none" \/ last.calls # <<>>
        /\ last.promise # "none" =>
              /\ last.promise = "rejected"
              /\ last.value = ErrorOf(last.handler, last.payload)
        /\ last.promise = "none" =>
              last.calls = <<<<ErrorOf(last.handler, last.payload), Undefined>>>>

\* C13 witness: a callback-style handler has failed and the callback of the
\* request was called with its error.
C13_Witness ==
    /\ last.op = "settle"
    /\ last.error = "HandlerError"
    /\ DeclaredLength(last.handler) = 2
    /\ last.calls = <<<<ErrorOf(last.handler, last.payload), Undefined>>>>

\* C14: when emit, request, onEvent or onRequest raises an error, the entries
\* under every name of both registries of every instance are what they were
\* before the call.
C14_FailedCallChangesNothing ==
    [][(/\ calls' = calls + 1
        /\ last'.op \in {"emit", "request", "onEvent", "onRequest"}
        /\ last'.error # "none") =>
          \A i \in Insts, n \in Names :
             /\ ListOf(eventHandlers'[i], n) = ListOf(eventHandlers[i], n)
             /\ ListOf(methodHandlers'[i], n) = ListOf(methodHandlers[i], n)]_vars

\* C15: in every reachable state no two entries of the list of a name, in
\* either registry of any instance, have the same id.
C15_IdsDistinctInList ==
    \A i \in Insts, n \in Names :
       /\ Cardinality(IdsOf(eventHandlers[i], n)) = Len(ListOf(eventHandlers[i], n))
       /\ Cardinality(IdsOf(methodHandlers[i], n)) = Len(ListOf(methodHandlers[i], n))

\* C15 witness: onEvent has registered a second entry under a name.
C15_Witness ==
    /\ last.op = "onEvent"
    /\ last.error # "E_ALREADY_EXISTS"
    /\ Len(eventHandlers[last.self][last.name]) = 2

\* The last step registered an entry: onEvent past its duplication check, or
\* onRequest returning.
Registered ==
    \/ last.op = "onEvent" /\ last.error # "E_ALREADY_EXISTS"
    \/ last.op = "onRequest" /\ last.error = "none"

\* The instance, registry, name and id of the entry the last step registered.
RegisteredAs ==
    <<last.self, IF last.op = "onEvent" THEN "event" ELSE "method", last.name, last.id>>

\* C16 as stated: an id that an entry under a name and registry once held is
\* never assigned to a later entry under that name and registry.
C16_IdNeverAssignedAgain == Registered => RegisteredAs \notin assigned

\* C16 as amended: the id a registration assigns is the id of no entry the
\* list of its name holds at that moment, in either registry; ids of removed
\* entries are not excluded.
C16_IdNotAmongCurrent ==
    [][/\ (IsCall("onEvent") /\ last'.error # "E_ALREADY_EXISTS") =>
             /\ last'.id \notin IdsOf(eventHandlers[last'.self], last'.name)
             /\ last'.id \in IdsOf(eventHandlers'[last'.self], last'.name)
       /\ (IsCall("onRequest") /\ last'.error = "none") =>
             /\ last'.id \notin IdsOf(methodHandlers[last'.self], last'.name)
             /\ last'.id \in IdsOf(methodHandlers'[last'.self], last'.name)]_vars

\* C16 witness: a registration has assigned an id that a removed entry under
\* the same name and registry held before.
C16_Witness == Registered /\ RegisteredAs \in assigned

\* The work a step added at the end of a queue of the host.
AddedTo(queue, queueAfter) == SubSeq(queueAfter, Len(queue) + 1, Len(queueAfter))

\* C17: an operation on one dispatcher leaves both registries of the other
\* dispatcher unchanged, and every handler it runs, schedules or starts, and
\* every handler the host later runs for it, was registered on that same
\* dispatcher.
C17_InstancesIsolated ==
    [][/\ calls' = calls + 1 =>
            /\ \A i \in Insts \ {last'.self} :
                  /\ eventHandlers'[i] = eventHandlers[i]
                  /\ methodHandlers'[i] = methodHandlers[i]
            /\ \A k \in 1 .. Len(last'.ran) :
                  last'.ran[k] \in {OwnEventCallable(last'.self), OwnMethodCallable(last'.self)}
            /\ \A k \in 1 .. Len(AddedTo(taskQueue, taskQueue')) :
                  LET task == AddedTo(taskQueue, taskQueue')[k]
                  IN  task.self = last'.self /\ task.handler = OwnEventCallable(last'.self)
            /\ \A k \in 1 .. Len(AddedTo(pending, pending')) :
                  LET item == AddedTo(pending, pending')[k]
                  IN  item.self = last'.self /\ item.handler = OwnMethodCallable(last'.self)
       /\ (calls' = calls /\ last'.op = "task") =>
            last'.handler = OwnEventCallable(last'.self)
       /\ (calls' = calls /\ last'.op = "settle") =>
            last'.handler = OwnMethodCallable(last'.self)]_vars

\* C17 witness: the host has run the handler of the created dispatcher for an
\* emit on it while the default dispatcher holds a handler under the same name.
C17_Witness ==
    /\ last.op = "task"
    /\ last.self = "created"
    /\ last.handler = "h2"
    /\ Len(ListOf(eventHandlers["default"], SharedName)) = 1
    /\ Len(ListOf(eventHandlers["created"], SharedName)) = 1

\* C18: emit schedules one invocation for each handler its name holds at that
\* moment; removeEventHandler, removeAllEventHandlers and onEvent leave the
\* scheduled invocations as they are; and the host runs each scheduled
\* invocation with its handler and payload whatever the registry holds by then.
C18_ScheduledNotRetracted ==
    [][/\ IsCall("emit") =>
            AddedTo(taskQueue, taskQueue') =
               ScheduledBy(last'.self, last'.name,
                           ListOf(eventHandlers[last'.self], last'.name), last'.payload)
       /\ (/\ calls' = calls + 1
           /\ last'.op \in {"removeEventHandler", "removeAllEventHandlers", "onEvent"}) =>
            taskQueue' = taskQueue
       /\ (calls' = calls /\ last'.op = "task") =>
            /\ taskQueue # <<>>
            /\ taskQueue' = Tail(taskQueue)
            /\ last'.ran = <<Head(taskQueue).handler>>
            /\ last'.payload = Head(taskQueue).payload
            /\ last'.id = Head(taskQueue).id]_vars

\* C18 witness: the host has run a handler whose entry was removed from the
\* list of its name after the emit that scheduled it.
C18_Witness ==
    /\ last.op = "task"
    /\ last.ran = <<last.handler>>
    /\ last.id \notin IdsOf(eventHandlers[last.self], last.name)

\* C19: the list of an event name grows by one entry at its end on an onEvent
\* that returns, loses at most one entry on removeEventHandler, is empty after
\* removeAllEventHandlers, and is left as it is by emit, request, onRequest,
\* removeMethodHandler and every operation on another name; and the onEvent or
\* onRequest that follows removeAllEventHandlers or removeMethodHandler on a
\* name returns without raising, with one entry under the name.
C19_ListChangesOnlyByRegistration ==
    [][calls' = calls + 1 =>
         LET self == last'.self
             before(n) == ListOf(eventHandlers[self], n)
             after(n) == ListOf(eventHandlers'[self], n)
         IN  /\ \A n \in Names \ {last'.name} : after(n) = before(n)
             /\ last'.op \in {"emit", "request", "onRequest", "removeMethodHandler"} =>
                   after(last'.name) = before(last'.name)
             /\ (last'.op = "onEvent" /\ last'.error = "none") =>
                   /\ Len(after(last'.name)) = Len(before(last'.name)) + 1
                   /\ SubSeq(after(last'.name), 1, Len(before(last'.name))) = before(last'.name)
             /\ last'.op = "removeEventHandler" =>
                   /\ Len(after(last'.name)) >= Len(before(last'.name)) - 1
                   /\ Len(after(last'.name)) <= Len(before(last'.name))
             /\ last'.op = "removeAllEventHandlers" => after(last'.name) = <<>>
             /\ (/\ last.op = "removeAllEventHandlers"
                 /\ last'.op = "onEvent"
                 /\ last.self = self /\ last.name = last'.name) =>
                   /\ last'.error = "none"
                   /\ Len(after(last'.name)) = 1
             /\ (/\ last.op = "removeMethodHandler"
                 /\ last'.op = "onRequest"
                 /\ last.self = self /\ last.name = last'.name) =>
                   /\ last'.error = "none"
                   /\ Len(ListOf(methodHandlers'[self], last'.name)) = 1]_vars

\* C20: a request in callback mode calls its completion callback at most
\* once, whether the handler succeeds or fails and whether or not the callback
\* raises.
C20_CallbackAtMostOnce == last.op = "settle" => Len(last.calls) <= 1

====
